---- MODULE Spec2Model ----
(***************************************************************************)
(* A model of app.py: the MongoDB gateway (DatabaseManager), the question  *)
(* synthesizer (QuizGenerator), the answer evaluator (QuizEvaluator) and   *)
(* the Flask routes that drive them.                                       *)
(*                                                                         *)
(* A collection is a sequence of documents in natural (insertion) order.   *)
(* A history document keeps the fields the queries of the program read:    *)
(* username, timestamp, topic, score, total, answers.  The other fields    *)
(* of the stored record (subtopics, questions, timing) are written and     *)
(* returned verbatim and read by no query, so they are left out.           *)
(***************************************************************************)
EXTENDS Integers, Sequences, FiniteSets, TLC

VARIABLES
    users_col,    \* db["users"]: sequence of user documents
    history_col,  \* db["history"]: sequence of quiz-attempt documents
    now,          \* index into Clock of the current second (datetime.now())
    resp,         \* the last HTTP response of the sequential server
    call,         \* the last direct DatabaseManager call (method and arguments)
    ret,          \* what that call gave back to its caller
    handlers,     \* per concurrent /register handler: its position and locals
    gen,          \* the last QuizGenerator call and its result
    ev            \* the last QuizEvaluator call and its result

vars == <<users_col, history_col, now, resp, call, ret, handlers, gen, ev>>

----------------------------------------------------------------------------
(* Bounds of the model *)

\* most documents the history collection holds while the routes are served
MaxDocs == 1

\* most documents the history collection holds while the gateway is called directly
MaxLegacy == 3

\* most documents the users collection holds when duplicates can be inserted
MaxUsers == 2

----------------------------------------------------------------------------
(* Values *)

\* usernames are compared as they are written: "Ann" is not "ann"
Usernames == {"ann", "Ann"}
Passwords == {"pw1", "pw2"}
Topics == {"py", "art"}

\* datetime.now().strftime("%Y-%m-%d %H:%M:%S"): one string per second, of
\* fixed width, so that the order of the strings is the order of the seconds.
Clock == <<"2025-01-01 10:00:00", "2025-01-01 10:00:01">>

strftime(t) == Clock[t]

Timestamps == {strftime(t) : t \in 1..Len(Clock)}

\* position of a timestamp string in the (lexicographic = chronological) order
TsRank(ts) == CHOOSE t \in 1..Len(Clock) : Clock[t] = ts

\* A field of a JSON/BSON document: a value, null, or not there at all.
Missing == [tag |-> "missing", val |-> 0]
Null == [tag |-> "null", val |-> 0]
IntVal(n) == [tag |-> "int", val |-> n]
ListVal(s) == [tag |-> "list", val |-> s]

\* Python's dict.get(key): None for a missing key and for a stored None
IsNone(f) == f.tag \in {"missing", "null"}

\* Python truthiness of dict.get(key) for the values a field takes here
Truthy(f) ==
    CASE f.tag = "missing" -> FALSE
      [] f.tag = "null" -> FALSE
      [] f.tag = "int" -> f.val # 0
      [] f.tag = "list" -> Len(f.val) > 0

\* the sequence without the elements at the indices in gone
RECURSIVE Without(_, _)
Without(col, gone) ==
    IF col = <<>> THEN <<>>
    ELSE LET n == Len(col)
             front == Without(SubSeq(col, 1, n - 1), gone)
         IN IF n \in gone THEN front ELSE Append(front, col[n])

----------------------------------------------------------------------------
(* DatabaseManager: users *)

\* find_user with the password always part of the query: the existence check of
\* /register, which passes no password, then matches nobody
find_user_with_password(col, username, password, up) ==
    IF ~up THEN [raised |-> TRUE, val |-> <<>>]
    ELSE LET hit == {i \in 1..Len(col) :
                        col[i].username = username /\ col[i].password = password}
         IN [raised |-> FALSE,
             val |-> IF hit = {} THEN <<>>
                     ELSE <<col[CHOOSE i \in hit : \A j \in hit : i <= j]>>]

\* find_user: users_col.find_one(query), outside any try block.
\* password "" (or None) is falsy: the query is then by username alone.
\* Result: <<>> for None, <<doc>> for the first match; raised when the driver fails.
find_user(col, username, password, up) ==
    IF ~up THEN [raised |-> TRUE, val |-> <<>>]
    ELSE LET hit == {i \in 1..Len(col) :
                        /\ col[i].username = username
                        /\ (password # "" => col[i].password = password)}
         IN [raised |-> FALSE,
             val |-> IF hit = {} THEN <<>>
                     ELSE <<col[CHOOSE i \in hit : \A j \in hit : i <= j]>>]

\* insert_user against a collection with a unique index on username: the second
\* insert of a username fails in the driver and False is returned
insert_user_unique(col, username, password, up) ==
    IF ~up \/ \E i \in 1..Len(col) : col[i].username = username
    THEN [col |-> col, raised |-> FALSE, val |-> FALSE]
    ELSE [col |-> Append(col, [username |-> username, password |-> password]),
          raised |-> FALSE, val |-> TRUE]

\* insert_user: insert_one with no uniqueness check; False when the driver fails.
insert_user(col, username, password, up) ==
    IF ~up THEN [col |-> col, raised |-> FALSE, val |-> FALSE]
    ELSE [col |-> Append(col, [username |-> username, password |-> password]),
          raised |-> FALSE, val |-> TRUE]

----------------------------------------------------------------------------
(* DatabaseManager: history *)

SameKey(d, q) ==
    /\ d.username = q.username
    /\ d.timestamp = q.timestamp
    /\ d.topic = q.topic

\* {"$set": quiz_data}: every field quiz_data holds replaces the stored one;
\* a field quiz_data does not hold is left as it is.
SetFields(d, q) ==
    [username |-> q.username, timestamp |-> q.timestamp, topic |-> q.topic,
     score |-> IF q.score.tag = "missing" THEN d.score ELSE q.score,
     total |-> IF q.total.tag = "missing" THEN d.total ELSE q.total,
     answers |-> IF q.answers.tag = "missing" THEN d.answers ELSE q.answers]

\* insert_one in place of the upsert: the record is always added
update_one_insert(col, q) == Append(col, q)

\* update_one(filter, update, upsert=True): the first document that matches
\* the key is updated in place; with no match the document is inserted.
update_one_upsert(col, q) ==
    LET hit == {i \in 1..Len(col) : SameKey(col[i], q)}
    IN IF hit = {} THEN Append(col, q)
       ELSE LET i == CHOOSE k \in hit : \A j \in hit : k <= j
            IN [col EXCEPT ![i] = SetFields(col[i], q)]

\* the guard of insert_quiz_history that skips a record
SkipRecord(q) == IsNone(q.score) /\ ~Truthy(q.answers)

\* result.upserted_id, else result.modified_count > 0, else neither
upsert_outcome(col, q) ==
    IF \A i \in 1..Len(col) : ~SameKey(col[i], q) THEN "inserted"
    ELSE IF update_one_upsert(col, q) # col THEN "updated"
    ELSE "unchanged"

\* insert_quiz_history: False when the record is skipped or the driver fails,
\* True after the upsert whether it inserted, modified or changed nothing.
insert_quiz_history(col, q, up) ==
    IF SkipRecord(q)
    THEN [col |-> col, raised |-> FALSE, val |-> FALSE, outcome |-> "skipped"]
    ELSE IF ~up
    THEN [col |-> col, raised |-> FALSE, val |-> FALSE, outcome |-> "error"]
    ELSE [col |-> update_one_upsert(col, q), raised |-> FALSE, val |-> TRUE,
          outcome |-> upsert_outcome(col, q)]

\* the find() filter of get_user_history:
\* {"username": u, "score": {"$ne": None}, "answers": {"$exists": True, "$ne": []}}
\* $ne None excludes null and missing; $exists True admits a stored null.
EvaluatedFilter(d, username) ==
    /\ d.username = username
    /\ ~IsNone(d.score)
    /\ d.answers.tag # "missing"
    /\ ~(d.answers.tag = "list" /\ d.answers.val = <<>>)

\* f"{record.get('timestamp', '')}_{record.get('topic', '')}"
combo_key(d) == d.timestamp \o "_" \o d.topic

\* no deduplication: the query result as it is
unique_records_all(records) == records

\* the manual deduplication loop: keep a record unless its key was seen
RECURSIVE unique_records(_)
unique_records(records) ==
    IF records = <<>> THEN <<>>
    ELSE LET n == Len(records)
             front == SubSeq(records, 1, n - 1)
             kept == unique_records(front)
         IN IF \E i \in 1..(n - 1) : combo_key(front[i]) = combo_key(records[n])
            THEN kept ELSE Append(kept, records[n])

\* .sort("timestamp", -1): every order of the matching documents that is
\* non-increasing in timestamp (the order among equal timestamps is the store's).
SortDescending(col, hit) ==
    LET n == Cardinality(hit)
        orders == {p \in [1..n -> hit] :
                      /\ \A i, j \in 1..n : i # j => p[i] # p[j]
                      /\ \A i \in 1..n, j \in 1..n :
                            i < j => TsRank(col[p[i]].timestamp) >= TsRank(col[p[j]].timestamp)}
    IN {[i \in 1..n |-> col[p[i]]] : p \in orders}

\* get_user_history: the lists the call may return (val), each with the sorted
\* query result it was deduplicated from (records); [] when the driver fails.
get_user_history(col, username, up) ==
    IF ~up THEN {[raised |-> FALSE, val |-> <<>>, records |-> <<>>]}
    ELSE LET hit == {i \in 1..Len(col) : EvaluatedFilter(col[i], username)}
         IN {[raised |-> FALSE, val |-> unique_records(records), records |-> records] :
                 records \in SortDescending(col, hit)}

\* clear_user_history: delete_many({"username": u}); 0 when the driver fails.
clear_user_history(col, username, up) ==
    IF ~up THEN [col |-> col, raised |-> FALSE, val |-> 0]
    ELSE LET hit == {i \in 1..Len(col) : col[i].username = username}
         IN [col |-> Without(col, hit), raised |-> FALSE, val |-> Cardinality(hit)]

\* delete_many in place of delete_one: every matching document is removed
delete_quiz_many(col, username, timestamp, up) ==
    IF ~up THEN {[col |-> col, raised |-> FALSE, val |-> 0]}
    ELSE LET hit == {i \in 1..Len(col) :
                        col[i].username = username /\ col[i].timestamp = timestamp}
         IN {[col |-> Without(col, hit), raised |-> FALSE, val |-> Cardinality(hit)]}

\* delete_quiz: delete_one({"username": u, "timestamp": ts}) removes one matching
\* document, whichever the store finds first; 0 when none matches or the driver fails.
delete_quiz(col, username, timestamp, up) ==
    IF ~up THEN {[col |-> col, raised |-> FALSE, val |-> 0]}
    ELSE LET hit == {i \in 1..Len(col) :
                        col[i].username = username /\ col[i].timestamp = timestamp}
         IN IF hit = {} THEN {[col |-> col, raised |-> FALSE, val |-> 0]}
            ELSE {[col |-> Without(col, {i}), raised |-> FALSE, val |-> 1] : i \in hit}

\* a filter on the score alone
UnevaluatedFilter_score(d, username) == d.username = username /\ IsNone(d.score)

\* the delete_many filter of cleanup_unevaluated_quizzes:
\* {"username": u, "$or": [{"score": None}, {"answers": {"$exists": False}}, {"answers": []}]}
UnevaluatedFilter(d, username) ==
    /\ d.username = username
    /\ \/ IsNone(d.score)
       \/ d.answers.tag = "missing"
       \/ (d.answers.tag = "list" /\ d.answers.val = <<>>)

\* cleanup_unevaluated_quizzes: 0 when the driver fails.
cleanup_unevaluated_quizzes(col, username, up) ==
    IF ~up THEN [col |-> col, raised |-> FALSE, val |-> 0]
    ELSE LET hit == {i \in 1..Len(col) : UnevaluatedFilter(col[i], username)}
         IN [col |-> Without(col, hit), raised |-> FALSE, val |-> Cardinality(hit)]

----------------------------------------------------------------------------
(* QuizEvaluator *)

\* A Python string is a sequence of characters.
StrVal(s) == [tag |-> "str", val |-> s]

IsSpace(c) == c = " "

\* str.strip()
RECURSIVE strip(_)
strip(s) ==
    IF s = <<>> THEN <<>>
    ELSE IF IsSpace(s[1]) THEN strip(Tail(s))
    ELSE IF IsSpace(s[Len(s)]) THEN strip(SubSeq(s, 1, Len(s) - 1))
    ELSE s

UpperChar(c) ==
    CASE c = "a" -> "A" [] c = "b" -> "B" [] c = "c" -> "C" [] c = "d" -> "D"
      [] c = "e" -> "E" [] c = "f" -> "F" [] c = "g" -> "G" [] c = "h" -> "H"
      [] c = "i" -> "I" [] c = "j" -> "J" [] c = "k" -> "K" [] c = "l" -> "L"
      [] c = "m" -> "M" [] c = "n" -> "N" [] c = "o" -> "O" [] c = "p" -> "P"
      [] c = "q" -> "Q" [] c = "r" -> "R" [] c = "s" -> "S" [] c = "t" -> "T"
      [] c = "u" -> "U" [] c = "v" -> "V" [] c = "w" -> "W" [] c = "x" -> "X"
      [] c = "y" -> "Y" [] c = "z" -> "Z" [] OTHER -> c

\* str.upper()
upper(s) == [i \in 1..Len(s) |-> UpperChar(s[i])]

\* question.get("answer", "").strip().upper()
correct_answer(question) ==
    IF question.answer.tag = "missing" THEN <<>>
    ELSE upper(strip(question.answer.val))

\* the submitted answer compared as it was sent
given_answer_raw(user_answers, i) ==
    IF i <= Len(user_answers) THEN user_answers[i] ELSE <<>>

\* str(user_answers[i]).strip().upper() if i < len(user_answers) else ""
\* (i counts from 1 here)
given_answer(user_answers, i) ==
    IF i <= Len(user_answers) THEN upper(strip(user_answers[i])) ELSE <<>>

\* the score the loop of evaluate_quiz accumulates over questions 1..n
RECURSIVE score_upto(_, _, _)
score_upto(user_answers, questions, n) ==
    IF n = 0 THEN 0
    ELSE score_upto(user_answers, questions, n - 1)
         + (IF given_answer(user_answers, n) = correct_answer(questions[n]) THEN 1 ELSE 0)

\* evaluate_quiz: no history_data when there are no questions
evaluate_quiz(username, topic, user_answers, questions, ts) ==
    IF questions = <<>>
    THEN [score |-> 0, total |-> 0, has_history |-> FALSE,
          history_data |-> [username |-> username, timestamp |-> ts, topic |-> topic,
                            score |-> Missing, total |-> Missing, answers |-> Missing]]
    ELSE LET score == score_upto(user_answers, questions, Len(questions))
         IN [score |-> score, total |-> Len(questions), has_history |-> TRUE,
             history_data |-> [username |-> username, timestamp |-> ts, topic |-> topic,
                               score |-> IntVal(score),
                               total |-> IntVal(Len(questions)),
                               answers |-> ListVal(user_answers)]]

\* keyword in text
Contains(text, keyword) ==
    \E i \in 1..(Len(text) - Len(keyword) + 1) :
        SubSeq(text, i, i + Len(keyword) - 1) = keyword

\* ' '.join(options)
RECURSIVE join_space(_)
join_space(options) ==
    IF options = <<>> THEN <<>>
    ELSE IF Len(options) = 1 THEN options[1]
    ELSE options[1] \o <<" ">> \o join_space(Tail(options))

\* f" {letter}) "
letter_mark(letter) == <<" ", letter, ")", " ">>

option_letters == {"A", "B", "C", "D"}

\* question.get('options', [])
options_of(question) ==
    IF question.options.tag = "missing" THEN <<>> ELSE question.options.val

\* _is_valid_explanation: no letter marked in the explanation whose mark is
\* not in the joined options
is_valid_explanation(explanation, options) ==
    \A letter \in option_letters :
        ~(/\ Contains(explanation, letter_mark(letter))
          /\ ~Contains(join_space(options), letter_mark(letter)))

\* The two default texts, each a text of one piece: none holds a letter mark.
no_explanation == <<"No explanation provided.">>
review_explanation ==
    <<"The selected answer is incorrect. Review the code logic carefully.">>

\* question.get("explanation", default)
stored_explanation(question, default) ==
    IF question.explanation.tag = "missing" THEN default
    ELSE question.explanation.val

\* _generate_strict_explanation, given what its LLM call gives (r.ok is false
\* when the call raises)
generate_strict_explanation(question, r) ==
    IF ~r.ok THEN stored_explanation(question, review_explanation)
    ELSE LET explanation == strip(r.text)
         IN IF is_valid_explanation(explanation, options_of(question))
            THEN explanation
            ELSE stored_explanation(question, review_explanation)

\* the entry the loop of evaluate_quiz appends for question n: whether the
\* answer was found correct, the given and the correct answer the text quotes
\* (the text of a correct answer quotes none), and the explanation
explanation_entry(user_answers, questions, replies, n) ==
    LET correct == correct_answer(questions[n])
        given == given_answer(user_answers, n)
    IN IF given = correct
       THEN [correct |-> TRUE, given |-> <<>>, answer |-> <<>>,
             text |-> stored_explanation(questions[n], no_explanation)]
       ELSE [correct |-> FALSE, given |-> given, answer |-> correct,
             text |-> generate_strict_explanation(questions[n], replies[n])]

\* the explanations the loop of evaluate_quiz accumulates over questions 1..n
RECURSIVE explanations_upto(_, _, _, _)
explanations_upto(user_answers, questions, replies, n) ==
    IF n = 0 THEN <<>>
    ELSE Append(explanations_upto(user_answers, questions, replies, n - 1),
                explanation_entry(user_answers, questions, replies, n))

\* the explanations of evaluate_quiz: none when there are no questions
explanations(user_answers, questions, replies) ==
    IF questions = <<>> THEN <<>>
    ELSE explanations_upto(user_answers, questions, replies, Len(questions))

----------------------------------------------------------------------------
(* QuizGenerator *)

\* what one chat.completions.create call gives: an exception, or a text
LLMError == [ok |-> FALSE, text |-> <<>>]
LLMText(t) == [ok |-> TRUE, text |-> t]

\* the number of subtopics generate_subtopics is to return
NumSubtopics == 9

\* str.split(","): the pieces between the commas, "" included
RECURSIVE split(_)
split(s) ==
    IF \A i \in 1..Len(s) : s[i] # ","
    THEN <<s>>
    ELSE LET c == CHOOSE i \in 1..Len(s) :
                     s[i] = "," /\ \A j \in 1..(i - 1) : s[j] # ","
         IN <<SubSeq(s, 1, c - 1)>> \o split(SubSeq(s, c + 1, Len(s)))

\* [f(x) for x in xs if keep]: the stripped pieces longer than MinLen
RECURSIVE stripped_longer(_, _)
stripped_longer(pieces, MinLen) ==
    IF pieces = <<>> THEN <<>>
    ELSE LET rest == stripped_longer(Tail(pieces), MinLen)
             piece == strip(Head(pieces))
         IN IF Len(piece) > MinLen THEN <<piece>> \o rest ELSE rest

\* xs[:n]
take(xs, n) == SubSeq(xs, 1, IF Len(xs) < n THEN Len(xs) ELSE n)

fallback_subtopics ==
    <<"Fundamentals", "Key Concepts", "Advanced Topics",
      "Historical Context", "Important Figures", "Major Events",
      "Theoretical Framework", "Practical Applications", "Current Developments">>

\* generate_subtopics, given what the first and the supplementary call give.
\* calls counts the LLM calls made.
generate_subtopics(first, second) ==
    IF ~first.ok THEN [subtopics |-> fallback_subtopics, calls |-> 1, fallback |-> TRUE]
    ELSE LET subtopics == stripped_longer(split(strip(first.text)), 2)
         IN IF Len(subtopics) > NumSubtopics
            THEN [subtopics |-> take(subtopics, NumSubtopics), calls |-> 1,
                  fallback |-> FALSE]
            ELSE IF Len(subtopics) < NumSubtopics
            THEN IF ~second.ok
                 THEN [subtopics |-> fallback_subtopics, calls |-> 2, fallback |-> TRUE]
                 ELSE LET remaining == NumSubtopics - Len(subtopics)
                          additional == stripped_longer(split(strip(second.text)), 0)
                      IN [subtopics |-> take(subtopics \o take(additional, remaining),
                                             NumSubtopics),
                          calls |-> 2, fallback |-> FALSE]
            ELSE [subtopics |-> take(subtopics, NumSubtopics), calls |-> 1,
                  fallback |-> FALSE]

LowerChar(c) ==
    CASE c = "A" -> "a" [] c = "B" -> "b" [] c = "C" -> "c" [] c = "D" -> "d"
      [] c = "E" -> "e" [] c = "F" -> "f" [] c = "G" -> "g" [] c = "H" -> "h"
      [] c = "I" -> "i" [] c = "J" -> "j" [] c = "K" -> "k" [] c = "L" -> "l"
      [] c = "M" -> "m" [] c = "N" -> "n" [] c = "O" -> "o" [] c = "P" -> "p"
      [] c = "Q" -> "q" [] c = "R" -> "r" [] c = "S" -> "s" [] c = "T" -> "t"
      [] c = "U" -> "u" [] c = "V" -> "v" [] c = "W" -> "w" [] c = "X" -> "x"
      [] c = "Y" -> "y" [] c = "Z" -> "z" [] OTHER -> c

\* str.lower()
lower(s) == [i \in 1..Len(s) |-> LowerChar(s[i])]

coding_keywords ==
    {<<"p", "y", "t", "h", "o", "n">>,
     <<"j", "a", "v", "a">>,
     <<"c", "+", "+">>,
     <<"c", "#">>,
     <<"j", "a", "v", "a", "s", "c", "r", "i", "p", "t">>,
     <<"t", "y", "p", "e", "s", "c", "r", "i", "p", "t">>,
     <<"p", "r", "o", "g", "r", "a", "m", "m", "i", "n", "g">>,
     <<"c", "o", "d", "i", "n", "g">>,
     <<"a", "l", "g", "o", "r", "i", "t", "h", "m">>,
     <<"d", "a", "t", "a", " ", "s", "t", "r", "u", "c", "t", "u", "r", "e">>,
     <<"f", "u", "n", "c", "t", "i", "o", "n">>,
     <<"c", "l", "a", "s", "s">>,
     <<"o", "b", "j", "e", "c", "t">>,
     <<"v", "a", "r", "i", "a", "b", "l", "e">>,
     <<"l", "o", "o", "p">>,
     <<"a", "r", "r", "a", "y">>,
     <<"s", "t", "r", "i", "n", "g">>,
     <<"d", "e", "b", "u", "g">>,
     <<"c", "o", "d", "e">>,
     <<"p", "r", "o", "g", "r", "a", "m">>,
     <<"s", "o", "f", "t", "w", "a", "r", "e">>,
     <<"d", "e", "v", "e", "l", "o", "p", "m", "e", "n", "t">>,
     <<"h", "t", "m", "l">>,
     <<"c", "s", "s">>,
     <<"s", "q", "l">>,
     <<"d", "a", "t", "a", "b", "a", "s", "e">>,
     <<"a", "p", "i">>,
     <<"r", "e", "a", "c", "t">>,
     <<"n", "o", "d", "e">>,
     <<"v", "u", "e">>,
     <<"a", "n", "g", "u", "l", "a", "r">>,
     <<"d", "j", "a", "n", "g", "o">>,
     <<"f", "l", "a", "s", "k">>,
     <<"e", "x", "p", "r", "e", "s", "s">>,
     <<"o", "o", "p">>,
     <<"o", "b", "j", "e", "c", "t", " ", "o", "r", "i", "e", "n", "t", "e", "d">>,
     <<"i", "n", "h", "e", "r", "i", "t", "a", "n", "c", "e">>,
     <<"p", "o", "l", "y", "m", "o", "r", "p", "h", "i", "s", "m">>,
     <<"e", "n", "c", "a", "p", "s", "u", "l", "a", "t", "i", "o", "n">>,
     <<"a", "b", "s", "t", "r", "a", "c", "t", "i", "o", "n">>,
     <<"c", "o", "n", "s", "t", "r", "u", "c", "t", "o", "r">>,
     <<"m", "e", "t", "h", "o", "d">>,
     <<"a", "t", "t", "r", "i", "b", "u", "t", "e">>,
     <<"i", "n", "t", "e", "r", "f", "a", "c", "e">>}

\* is_coding_topic: a keyword occurs in f"{topic} {subtopic}".lower()
is_coding_topic(topic, subtopic) ==
    LET combined_text == lower(topic \o <<" ">> \o subtopic)
    IN \E keyword \in coding_keywords : Contains(combined_text, keyword)

\* [chr(64), ..., chr(67)]
Chr(n) ==
    CASE n = 64 -> "@" [] n = 65 -> "A" [] n = 66 -> "B" [] n = 67 -> "C"

\* no padding
pad_options_none(options) == options

\* while len(options) < 4: options.append(f"{chr(68 - (4 - len(options)))} Option")
RECURSIVE pad_options(_)
pad_options(options) ==
    IF Len(options) < 4
    THEN pad_options(Append(options, Chr(68 - (4 - Len(options))) \o " Option"))
    ELSE options

default_options == <<"A) Option A", "B) Option B", "C) Option C", "D) Option D">>

AnswerLetters == {<<"A">>, <<"B">>, <<"C">>, <<"D">>}

\* an element q of the parsed response passes the structure test
IsQuestion(q) == q.dict /\ q.question.tag # "missing" /\ q.options.tag # "missing"

\* the repairs made to q['options'] and q['answer']
repaired(q) ==
    [dict |-> TRUE,
     question |-> q.question,
     options |-> IF q.options.tag # "list" THEN ListVal(default_options)
                 ELSE IF Len(q.options.val) # 4
                 THEN ListVal(take(pad_options(q.options.val), 4))
                 ELSE q.options,
     answer |-> IF q.answer.tag = "missing" \/ q.answer.val \notin AnswerLetters
                THEN StrVal(<<"A">>)
                ELSE q.answer]

\* the validation loop over the parsed response
RECURSIVE validated_questions(_)
validated_questions(questions) ==
    IF questions = <<>> THEN <<>>
    ELSE LET rest == validated_questions(Tail(questions))
         IN IF IsQuestion(Head(questions))
            THEN <<repaired(Head(questions))>> \o rest
            ELSE rest

\* _create_fallback_questions
fallback_questions ==
    <<[dict |-> TRUE,
       question |-> StrVal(<<"s", "a", "m", "p", "l", "e">>),
       options |-> ListVal(default_options),
       answer |-> StrVal(<<"A">>)]>>

\* the backtick character (the lexer of TLA+ takes none inside a string)
Backtick == "BACKTICK"

\* the fence of three backticks is in q.get('question', '')
has_code(q) == Contains(q.question.val, <<Backtick, Backtick, Backtick>>)

\* _extract_json_from_response: the parsed list, or the fallback questions for
\* a text that holds no JSON.  A JSON object iterates over its keys, which are
\* no dicts: it validates like a list of strings.
extract_json(r) ==
    CASE r.kind = "list" -> r.items
      [] r.kind = "object" -> <<>>
      [] OTHER -> fallback_questions

\* One activation of _generate_subtopic_quiz, given what its LLM call gives:
\* either it calls itself again (retry), or it returns questions.  A failed call
\* and a JSON scalar (which the loop cannot iterate) end in the except branch.
subtopic_quiz_step(topic, subtopic, num_questions, r) ==
    IF ~r.ok \/ r.kind = "scalar"
    THEN [retry |-> FALSE, questions |-> fallback_questions]
    ELSE LET validated == validated_questions(extract_json(r))
         IN IF /\ is_coding_topic(topic, subtopic)
               /\ validated # <<>>
               /\ \A i \in 1..Len(validated) : ~has_code(validated[i])
            THEN [retry |-> TRUE, questions |-> <<>>]
            ELSE [retry |-> FALSE, questions |-> take(validated, num_questions)]

last_subtopic(subtopics) == subtopics[Len(subtopics)]

\* first_subtopic = subtopics[0]
first_subtopic(subtopics) == subtopics[1]

\* the end of generate_quiz: the questions cut to num_questions
quiz_result(questions, num_questions) ==
    IF Len(questions) > num_questions THEN take(questions, num_questions)
    ELSE questions

\* _generate_subtopic_quiz, given what the LLM gives to its call and to the
\* calls of the activations nested in it.  The activation that has no reply
\* left is the one the interpreter refuses (RecursionError): the activation
\* that called it returns the fallback from its except branch.
RECURSIVE generate_subtopic_quiz(_, _, _, _)
generate_subtopic_quiz(topic, subtopic, num_questions, replies) ==
    LET step == subtopic_quiz_step(topic, subtopic, num_questions, Head(replies))
    IN IF ~step.retry THEN step.questions
       ELSE IF Len(replies) = 1 THEN fallback_questions
       ELSE generate_subtopic_quiz(topic, subtopic, num_questions, Tail(replies))

\* generate_quiz(topic, subtopics, num_questions, username)
generate_quiz(topic, subtopics, num_questions, replies) ==
    IF subtopics = <<>>
    THEN [quiz |-> <<>>, error |-> "No subtopics selected"]
    ELSE [quiz |-> quiz_result(generate_subtopic_quiz(topic,
                                   first_subtopic(subtopics), num_questions, replies),
                               num_questions),
          error |-> ""]

----------------------------------------------------------------------------
(* What the LLM may answer *)

\* most comma-separated pieces of an arbitrary subtopics reply
MaxPieces == 2

\* most pieces of a reply made of usable subtopics only
MaxGood == 10

\* most elements of a parsed quiz reply
MaxItems == 2

\* most questions asked for
MaxNum == 1

\* most nested activations of _generate_subtopic_quiz before the interpreter
\* raises RecursionError
MaxRecursion == 3

\* pieces of a reply: usable, too short, blank, usable with blanks around
Pieces == {<<"a", "b", "c">>, <<"a", "b">>, <<" ">>, <<" ", "a", "b", "c", "d", " ">>}

RECURSIVE join(_)
join(pieces) ==
    IF pieces = <<>> THEN <<>>
    ELSE IF Len(pieces) = 1 THEN pieces[1]
    ELSE pieces[1] \o <<",">> \o join(Tail(pieces))

SubtopicReplies ==
    {LLMError}
    \cup {LLMText(join(ps)) : ps \in UNION {[1..n -> Pieces] : n \in 0..MaxPieces}}
    \cup {LLMText(join([i \in 1..n |-> <<"a", "b", "c">>])) : n \in 0..MaxGood}

GenTopics == {<<"J", "a", "v", "a">>, <<"H", "i", "s", "t", "o", "r", "y">>}
GenSubtopics == {<<"O", "O", "P">>, <<"R", "o", "m", "e">>}
SubtopicLists ==
    {<<>>} \cup {<<a>> : a \in GenSubtopics}
    \cup {<<a, b>> : a \in GenSubtopics, b \in GenSubtopics}

Plain == StrVal(<<"Q", "?">>)
Fenced == StrVal(<<"Q", Backtick, Backtick, Backtick, "x",
                   Backtick, Backtick, Backtick>>)
FourOptions == ListVal(<<"A) 1", "B) 2", "C) 3", "D) 4">>)

RawItems ==
    {[dict |-> TRUE, question |-> Fenced, options |-> FourOptions,
      answer |-> StrVal(<<"B">>)],
     [dict |-> TRUE, question |-> Plain, options |-> FourOptions,
      answer |-> StrVal(<<"C">>)],
     [dict |-> TRUE, question |-> Plain, options |-> ListVal(<<"A) 1", "B) 2">>),
      answer |-> StrVal(<<"E">>)],
     [dict |-> TRUE, question |-> Fenced,
      options |-> ListVal(<<"A) 1", "B) 2", "C) 3", "D) 4", "E) 5", "F) 6">>),
      answer |-> Missing],
     [dict |-> TRUE, question |-> Plain, options |-> Null, answer |-> StrVal(<<"b">>)],
     [dict |-> TRUE, question |-> Missing, options |-> FourOptions,
      answer |-> StrVal(<<"A">>)],
     [dict |-> FALSE, question |-> Missing, options |-> Missing, answer |-> Missing]}

QuizReply(ok, kind, items) == [ok |-> ok, kind |-> kind, items |-> items]

QuizReplies ==
    {QuizReply(FALSE, "error", <<>>), QuizReply(TRUE, "garbage", <<>>),
     QuizReply(TRUE, "object", <<>>), QuizReply(TRUE, "scalar", <<>>)}
    \cup {QuizReply(TRUE, "list", items) :
            items \in UNION {[1..n -> RawItems] : n \in 0..MaxItems}}

----------------------------------------------------------------------------
(* The routes, one request at a time *)

\* what the requests of the model carry
Question(ans) == [answer |-> StrVal(ans)]
RouteUsernames == Usernames \cup {""}
RouteTopics == {"py", ""}
RouteAnswerLists == {<<>>, << <<"a">> >>, << <<"B">> >>}
RouteQuestionLists == {<<>>, <<Question(<<"A">>)>>}
RouteSubtopicReplies ==
    {LLMError, LLMText(<<"a", "b", "c">>),
     LLMText(join([i \in 1..NumSubtopics |-> <<"a", "b", "c">>]))}
\* what generate_subtopics returns under these replies
RouteSubtopicResults ==
    {generate_subtopics(first, second) :
        first \in RouteSubtopicReplies, second \in RouteSubtopicReplies}
RouteGenTopics == {<<>>, <<"J", "a", "v", "a">>}
RouteSubtopicLists == {<<>>, <<<<"O", "O", "P">>>>}
RouteQuizReplies ==
    {[i \in 1..MaxRecursion |-> r] :
        r \in {QuizReply(FALSE, "error", <<>>),
               QuizReply(TRUE, "list", <<[dict |-> TRUE, question |-> Plain,
                                          options |-> FourOptions,
                                          answer |-> StrVal(<<"C">>)]>>),
               QuizReply(TRUE, "list", <<[dict |-> TRUE, question |-> Fenced,
                                          options |-> FourOptions,
                                          answer |-> StrVal(<<"B">>)]>>)}}

\* what generate_quiz returns for each request under each of these replies
RouteQuizResults ==
    [t \in RouteGenTopics, ss \in RouteSubtopicLists, n \in 0..MaxNum,
     rs \in RouteQuizReplies |-> generate_quiz(t, ss, n, rs)]

\* jsonify(...): the status, the message or error text, and the count or score
Response(code, msg, n) == [code |-> code, msg |-> msg, n |-> n]

NoCall == [op |-> "none"]
NoRet == [raised |-> FALSE, val |-> 0]
NoGen == [op |-> "none"]
NoEval == [op |-> "none"]
Idle == [pc |-> "idle", username |-> "", password |-> "", passed |-> FALSE,
         code |-> 0, msg |-> ""]

Init ==
    /\ users_col = <<>>
    /\ history_col = <<>>
    /\ now = 1
    /\ resp = Response(0, "", 0)
    /\ call = NoCall
    /\ ret = NoRet
    /\ handlers = [h \in {1, 2} |-> Idle]
    /\ gen = NoGen
    /\ ev = NoEval

\* /register: the users collection and the response it ends with
register_outcome(col, username, password, up) ==
    IF username = "" \/ password = ""
    THEN [col |-> col, code |-> 400, msg |-> "Username and password are required"]
    ELSE LET found == find_user(col, username, "", up)
         IN IF found.raised
            THEN [col |-> col, code |-> 500, msg |-> "Internal server error"]
            ELSE IF found.val # <<>>
            THEN [col |-> col, code |-> 400, msg |-> "User already exists!"]
            ELSE LET ins == insert_user(col, username, password, up)
                 IN IF ins.val
                    THEN [col |-> ins.col, code |-> 200, msg |-> "Registration successful!"]
                    ELSE [col |-> col, code |-> 500, msg |-> "Failed to register user"]

register(username, password) ==
    LET out == register_outcome(users_col, username, password, TRUE)
    IN /\ users_col' = out.col
       /\ resp' = Response(out.code, out.msg, 0)
       /\ UNCHANGED <<history_col, now, call, ret, handlers, gen, ev>>

login(username, password) ==
    /\ resp' = IF username = "" \/ password = ""
               THEN Response(400, "Username and password are required", 0)
               ELSE IF find_user(users_col, username, password, TRUE).val # <<>>
               THEN Response(200, "Login successful!", 0)
               ELSE Response(401, "Invalid credentials", 0)
    /\ UNCHANGED <<users_col, history_col, now, call, ret, handlers, gen, ev>>

\* /get_subtopics, generate_subtopics(topic) returning out
get_subtopics(topic, out) ==
    /\ resp' = IF topic = <<>> THEN Response(400, "Topic not provided", 0)
               ELSE Response(200, "subtopics", Len(out.subtopics))
    /\ UNCHANGED <<users_col, history_col, now, call, ret, handlers, gen, ev>>

\* /generate_quiz: nothing is saved
route_generate_quiz(topic, subtopics, num, replies) ==
    /\ resp' = IF topic = <<>> \/ subtopics = <<>>
               THEN Response(400, "Topic and at least one subtopic are required", 0)
               ELSE Response(200, "quiz",
                             Len(RouteQuizResults[topic, subtopics, num, replies].quiz))
    /\ UNCHANGED <<users_col, history_col, now, call, ret, handlers, gen, ev>>

\* /evaluate_quiz: evaluate, then hand history_data (when there is one) to
\* insert_quiz_history, whose result the route ignores
route_evaluate_quiz(username, topic, user_answers, questions) ==
    IF username = "" \/ topic = ""
    THEN /\ resp' = Response(400, "Missing required fields", 0)
         /\ UNCHANGED <<users_col, history_col, now, call, ret, handlers, gen, ev>>
    ELSE LET result == evaluate_quiz(username, topic, user_answers, questions,
                                     strftime(now))
             saved == IF result.has_history
                      THEN insert_quiz_history(history_col, result.history_data, TRUE).col
                      ELSE history_col
         IN /\ Len(saved) <= MaxDocs
            /\ history_col' = saved
            /\ resp' = Response(200, "evaluated", result.score)
            /\ UNCHANGED <<users_col, now, call, ret, handlers, gen, ev>>

get_history(username) ==
    /\ IF username = "" THEN resp' = Response(400, "Username not provided", 0)
       ELSE \E out \in get_user_history(history_col, username, TRUE) :
                resp' = Response(200, "history", Len(out.val))
    /\ UNCHANGED <<users_col, history_col, now, call, ret, handlers, gen, ev>>

clear_history(username) ==
    IF username = ""
    THEN /\ resp' = Response(400, "Username not provided", 0)
         /\ UNCHANGED <<users_col, history_col, now, call, ret, handlers, gen, ev>>
    ELSE LET out == clear_user_history(history_col, username, TRUE)
         IN /\ history_col' = out.col
            /\ resp' = Response(200, "Cleared history records", out.val)
            /\ UNCHANGED <<users_col, now, call, ret, handlers, gen, ev>>

route_delete_quiz(username, timestamp) ==
    IF username = "" \/ timestamp = ""
    THEN /\ resp' = Response(400, "Username and timestamp are required", 0)
         /\ UNCHANGED <<users_col, history_col, now, call, ret, handlers, gen, ev>>
    ELSE \E out \in delete_quiz(history_col, username, timestamp, TRUE) :
            /\ history_col' = out.col
            /\ resp' = IF out.val > 0
                       THEN Response(200, "Quiz deleted successfully", out.val)
                       ELSE Response(404, "Quiz not found", 0)
            /\ UNCHANGED <<users_col, now, call, ret, handlers, gen, ev>>

cleanup_unevaluated(username) ==
    IF username = ""
    THEN /\ resp' = Response(400, "Username not provided", 0)
         /\ UNCHANGED <<users_col, history_col, now, call, ret, handlers, gen, ev>>
    ELSE LET out == cleanup_unevaluated_quizzes(history_col, username, TRUE)
         IN /\ history_col' = out.col
            /\ resp' = Response(200, "Removed unevaluated quiz records", out.val)
            /\ UNCHANGED <<users_col, now, call, ret, handlers, gen, ev>>

\* a second passes
Tick ==
    /\ now < Len(Clock)
    /\ now' = now + 1
    /\ UNCHANGED <<users_col, history_col, resp, call, ret, handlers, gen, ev>>

Next ==
    \/ \E u \in RouteUsernames, p \in Passwords \cup {""} : register(u, p)
    \/ \E u \in RouteUsernames, p \in Passwords \cup {""} : login(u, p)
    \/ \E t \in RouteGenTopics, out \in RouteSubtopicResults : get_subtopics(t, out)
    \/ \E t \in RouteGenTopics, ss \in RouteSubtopicLists, n \in 0..MaxNum,
          rs \in RouteQuizReplies : route_generate_quiz(t, ss, n, rs)
    \/ \E u \in RouteUsernames, t \in RouteTopics,
          a \in RouteAnswerLists, q \in RouteQuestionLists :
            route_evaluate_quiz(u, t, a, q)
    \/ \E u \in RouteUsernames : get_history(u)
    \/ \E u \in RouteUsernames : clear_history(u)
    \/ \E u \in RouteUsernames, ts \in Timestamps \cup {""} : route_delete_quiz(u, ts)
    \/ \E u \in RouteUsernames : cleanup_unevaluated(u)
    \/ Tick

\* the server handling one request at a time, with the storage answering
Spec == Init /\ [][Next]_vars

----------------------------------------------------------------------------
(* The gateway called directly, on a collection that may hold legacy data *)

Doc(key, payload) ==
    [username |-> key[1], timestamp |-> key[2], topic |-> key[3],
     score |-> payload[1], total |-> payload[2], answers |-> payload[3]]

\* one user's attempts of one second on two topics and of another second,
\* and another user's attempt
MainKey == <<"ann", Clock[1], "py">>
OtherKeys == {<<"ann", Clock[1], "art">>, <<"ann", Clock[2], "py">>,
              <<"Ann", Clock[1], "py">>}

Evaluated(n) == <<IntVal(n), IntVal(2), ListVal(<< <<"A">> >>)>>

\* score and answers present, or null, or empty, or not there
Payloads ==
    {Evaluated(1), Evaluated(2),
     <<Null, IntVal(2), ListVal(<< <<"A">> >>)>>,
     <<IntVal(1), IntVal(2), ListVal(<<>>)>>,
     <<IntVal(1), IntVal(2), Null>>,
     <<Missing, Missing, Missing>>}

\* the documents a collection written by earlier versions may hold, and the
\* records a caller may hand to insert_quiz_history
LegacyDocs ==
    {Doc(MainKey, p) : p \in Payloads} \cup {Doc(k, Evaluated(1)) : k \in OtherKeys}

\* _create_indexes asks for a unique index on (username, timestamp, topic) and
\* goes on without it when the creation fails, as it does on a collection that
\* already holds two documents with one key: such collections are among these.
LegacyStores == UNION {[1..n -> LegacyDocs] : n \in 0..MaxLegacy}

UserDocs == [username : Usernames, password : Passwords]

db_find_user(username, password, up) ==
    /\ call' = [op |-> "find_user", username |-> username, up |-> up]
    /\ ret' = find_user(users_col, username, password, up)
    /\ UNCHANGED <<users_col, history_col, now, resp, handlers, gen, ev>>

db_insert_user(username, password, up) ==
    LET out == insert_user(users_col, username, password, up)
    IN /\ Len(out.col) <= MaxUsers
       /\ call' = [op |-> "insert_user", username |-> username, up |-> up]
       /\ ret' = [raised |-> out.raised, val |-> out.val]
       /\ users_col' = out.col
       /\ UNCHANGED <<history_col, now, resp, handlers, gen, ev>>

db_insert_quiz_history(q, up) ==
    LET out == insert_quiz_history(history_col, q, up)
    IN /\ Len(out.col) <= MaxLegacy
       /\ call' = [op |-> "insert_quiz_history", username |-> q.username,
                   up |-> up, q |-> q]
       /\ ret' = [raised |-> out.raised, val |-> out.val, outcome |-> out.outcome]
       /\ history_col' = out.col
       /\ UNCHANGED <<users_col, now, resp, handlers, gen, ev>>

db_get_user_history(username, up) ==
    /\ call' = [op |-> "get_user_history", username |-> username, up |-> up]
    /\ ret' \in get_user_history(history_col, username, up)
    /\ UNCHANGED <<users_col, history_col, now, resp, handlers, gen, ev>>

db_clear_user_history(username, up) ==
    LET out == clear_user_history(history_col, username, up)
    IN /\ call' = [op |-> "clear_user_history", username |-> username, up |-> up]
       /\ ret' = [raised |-> out.raised, val |-> out.val]
       /\ history_col' = out.col
       /\ UNCHANGED <<users_col, now, resp, handlers, gen, ev>>

db_delete_quiz(username, timestamp, up) ==
    \E out \in delete_quiz(history_col, username, timestamp, up) :
        /\ call' = [op |-> "delete_quiz", username |-> username, up |-> up,
                    timestamp |-> timestamp]
        /\ ret' = [raised |-> out.raised, val |-> out.val]
        /\ history_col' = out.col
        /\ UNCHANGED <<users_col, now, resp, handlers, gen, ev>>

db_cleanup_unevaluated_quizzes(username, up) ==
    LET out == cleanup_unevaluated_quizzes(history_col, username, up)
    IN /\ call' = [op |-> "cleanup_unevaluated_quizzes", username |-> username,
                   up |-> up]
       /\ ret' = [raised |-> out.raised, val |-> out.val]
       /\ history_col' = out.col
       /\ UNCHANGED <<users_col, now, resp, handlers, gen, ev>>

InitDB ==
    /\ users_col = <<>>
    /\ history_col \in LegacyStores
    /\ now = 1
    /\ resp = Response(0, "", 0)
    /\ call = NoCall
    /\ ret = NoRet
    /\ handlers = [h \in {1, 2} |-> Idle]
    /\ gen = NoGen
    /\ ev = NoEval

NextDB ==
    \/ \E q \in LegacyDocs : db_insert_quiz_history(q, TRUE)
    \/ \E u \in Usernames : db_get_user_history(u, TRUE)
    \/ \E u \in Usernames : db_clear_user_history(u, TRUE)
    \/ \E u \in Usernames, ts \in Timestamps : db_delete_quiz(u, ts, TRUE)
    \/ \E u \in Usernames : db_cleanup_unevaluated_quizzes(u, TRUE)

\* the history methods of the gateway, with the storage answering
SpecDB == InitDB /\ [][NextDB]_vars

\* the records handed to insert_quiz_history while the storage may fail
OutageDocs == {Doc(MainKey, Evaluated(1)), Doc(MainKey, Evaluated(2))}

InitOutage ==
    /\ users_col = <<>>
    /\ history_col \in {<<>>, <<Doc(MainKey, Evaluated(1))>>}
    /\ now = 1
    /\ resp = Response(0, "", 0)
    /\ call = NoCall
    /\ ret = NoRet
    /\ handlers = [h \in {1, 2} |-> Idle]
    /\ gen = NoGen
    /\ ev = NoEval

NextOutage ==
    \/ \E u \in Usernames, p \in Passwords \cup {""}, up \in BOOLEAN :
            db_find_user(u, p, up)
    \/ \E u \in Usernames, p \in Passwords, up \in BOOLEAN : db_insert_user(u, p, up)
    \/ \E q \in OutageDocs, up \in BOOLEAN : db_insert_quiz_history(q, up)
    \/ \E u \in Usernames, up \in BOOLEAN : db_get_user_history(u, up)
    \/ \E u \in Usernames, up \in BOOLEAN : db_clear_user_history(u, up)
    \/ \E u \in Usernames, ts \in Timestamps, up \in BOOLEAN : db_delete_quiz(u, ts, up)
    \/ \E u \in Usernames, up \in BOOLEAN : db_cleanup_unevaluated_quizzes(u, up)

\* every method of the gateway, with a storage whose calls may fail
SpecOutage == InitOutage /\ [][NextOutage]_vars

----------------------------------------------------------------------------
(* Deletions, by the gateway and by the route, on such a collection *)

NextDelete ==
    \/ \E u \in Usernames, ts \in Timestamps : db_delete_quiz(u, ts, TRUE)
    \/ \E u \in RouteUsernames, ts \in Timestamps \cup {""} : route_delete_quiz(u, ts)

SpecDelete == InitDB /\ [][NextDelete]_vars

----------------------------------------------------------------------------
(* Two /register requests served at the same time *)

\* the handler validates the request and asks find_user; a free username
\* leaves it between the check and the insert
register_check(h, username, password) ==
    /\ handlers[h].pc = "idle"
    /\ LET found == find_user(users_col, username, "", TRUE)
           me == [Idle EXCEPT !.username = username, !.password = password]
       IN handlers' = [handlers EXCEPT ![h] =
            IF username = "" \/ password = ""
            THEN [me EXCEPT !.pc = "done", !.code = 400,
                            !.msg = "Username and password are required"]
            ELSE IF found.val # <<>>
            THEN [me EXCEPT !.pc = "done", !.code = 400, !.msg = "User already exists!"]
            ELSE [me EXCEPT !.pc = "checked", !.passed = TRUE]]
    /\ UNCHANGED <<users_col, history_col, now, resp, call, ret, gen, ev>>

\* the handler that passed the check inserts and answers
register_insert(h) ==
    /\ handlers[h].pc = "checked"
    /\ LET ins == insert_user(users_col, handlers[h].username, handlers[h].password, TRUE)
       IN /\ Len(ins.col) <= MaxUsers
          /\ users_col' = ins.col
          /\ handlers' = [handlers EXCEPT ![h] =
                IF ins.val
                THEN [@ EXCEPT !.pc = "done", !.code = 200,
                               !.msg = "Registration successful!"]
                ELSE [@ EXCEPT !.pc = "done", !.code = 500,
                               !.msg = "Failed to register user"]]
    /\ UNCHANGED <<history_col, now, resp, call, ret, gen, ev>>

\* the response is sent and the handler is free for the next request
register_return(h) ==
    /\ handlers[h].pc = "done"
    /\ handlers' = [handlers EXCEPT ![h] = Idle]
    /\ UNCHANGED <<users_col, history_col, now, resp, call, ret, gen, ev>>

NextConc ==
    \/ \E h \in {1, 2}, u \in RouteUsernames, p \in Passwords \cup {""} :
            register_check(h, u, p)
    \/ \E h \in {1, 2} : register_insert(h)
    \/ \E h \in {1, 2} : register_return(h)

\* two request handlers whose storage calls interleave
SpecConc == Init /\ [][NextConc]_vars

----------------------------------------------------------------------------
(* The generator called with what the LLM may answer *)

\* generate_subtopics(topic).  The generator keeps nothing from one call to the
\* next: gen records the one call that is followed.
call_generate_subtopics(first, second) ==
    LET out == generate_subtopics(first, second)
    IN /\ gen = NoGen
       /\ gen' = [op |-> "generate_subtopics", pc |-> "done",
                  first |-> first,
                  second |-> IF out.calls = 2 THEN second ELSE LLMError,
                  calls |-> out.calls, subtopics |-> out.subtopics,
                  fallback |-> out.fallback]
       /\ UNCHANGED <<users_col, history_col, now, resp, call, ret, handlers, ev>>

\* generate_quiz(topic, subtopics, num_questions, username) up to its first LLM
\* call; with no subtopics it returns at once
call_generate_quiz(topic, subtopics, num_questions) ==
    /\ gen = NoGen
    /\ gen' = [op |-> "generate_quiz", topic |-> topic, subtopics |-> subtopics,
               num_questions |-> num_questions, asked |-> <<>>, quiz |-> <<>>,
               reply |-> QuizReply(FALSE, "none", <<>>),
               pc |-> IF subtopics = <<>> THEN "done" ELSE "llm",
               error |-> IF subtopics = <<>> THEN "No subtopics selected" ELSE ""]
    /\ UNCHANGED <<users_col, history_col, now, resp, call, ret, handlers, ev>>

\* the LLM answers the call of the innermost activation of
\* _generate_subtopic_quiz, which retries or returns through generate_quiz;
\* reply keeps the answer the activation that returned was given
llm_quiz_reply(r) ==
    /\ gen.op = "generate_quiz" /\ gen.pc = "llm"
    /\ LET subtopic == first_subtopic(gen.subtopics)
           asked == Append(gen.asked, subtopic)
           step == subtopic_quiz_step(gen.topic, subtopic, gen.num_questions, r)
       IN gen' = IF step.retry /\ Len(asked) < MaxRecursion
                 THEN [gen EXCEPT !.asked = asked]
                 ELSE [gen EXCEPT
                         !.asked = asked,
                         !.reply = r,
                         !.pc = "done",
                         !.quiz = quiz_result(IF step.retry THEN fallback_questions
                                              ELSE step.questions,
                                              gen.num_questions)]
    /\ UNCHANGED <<users_col, history_col, now, resp, call, ret, handlers, ev>>

NextGen ==
    \/ \E first \in SubtopicReplies, second \in SubtopicReplies :
            call_generate_subtopics(first, second)
    \/ \E t \in GenTopics, ss \in SubtopicLists, n \in 0..MaxNum :
            call_generate_quiz(t, ss, n)
    \/ \E r \in QuizReplies : llm_quiz_reply(r)

\* the generator alone, its LLM calls answered in every way
SpecGen == Init /\ [][NextGen]_vars

----------------------------------------------------------------------------
(* The evaluator called with what the client and the LLM may give *)

\* most questions of an evaluated quiz
MaxQuestions == 2

\* most answers submitted with it
MaxAnswers == 2

\* f"{letter}) {text}"
Opt(letter, text) == <<letter, ")", " ", text>>

FourLabelled == <<Opt("A", "1"), Opt("B", "2"), Opt("C", "3"), Opt("D", "4")>>
TwoLabelled == <<Opt("A", "1"), Opt("B", "2")>>
Stored == StrVal(<<"s", "t", "o", "r", "e", "d">>)

EvalQuestion(answer, options, explanation) ==
    [answer |-> answer, options |-> options, explanation |-> explanation]

\* questions with an answer, an answer to trim and capitalise, none, an empty one
EvalQuestions ==
    {EvalQuestion(StrVal(<<"A">>), ListVal(FourLabelled), Stored),
     EvalQuestion(StrVal(<<" ", "b", " ">>), ListVal(FourLabelled), Missing),
     EvalQuestion(Missing, Missing, Missing),
     EvalQuestion(StrVal(<<>>), ListVal(TwoLabelled), Stored)}

EvalQuestionLists == UNION {[1..n -> EvalQuestions] : n \in 0..MaxQuestions}

EvalAnswers == {<<"a">>, <<" ", "B">>, <<>>}
EvalAnswerLists == UNION {[1..n -> EvalAnswers] : n \in 0..MaxAnswers}

EvalReplies == {LLMError, LLMText(<<" ", "w", "h", "y">>)}

\* an explanation that names an option by its letter
Mention(letter) == <<"x", " ", letter, ")", " ", "y">>

ExplanationReplies ==
    {LLMError, LLMText(<<"w", "h", "y">>), LLMText(<<" ", "B", ")", " ", "y">>)}
    \cup {LLMText(Mention(letter)) : letter \in {"A", "B", "C", "E"}}

ExplanationQuestions ==
    {EvalQuestion(StrVal(<<"A">>), ListVal(FourLabelled), Stored),
     EvalQuestion(StrVal(<<"A">>), ListVal(FourLabelled), Missing),
     EvalQuestion(StrVal(<<"A">>), ListVal(TwoLabelled), Stored),
     EvalQuestion(StrVal(<<"A">>), Missing, Stored)}

\* evaluate_quiz(username, topic, subtopics, user_answers, questions), the LLM
\* giving replies[i] when asked about question i.  The evaluator keeps nothing
\* from one call to the next: ev records the one call that is followed, with
\* the replies of the questions the LLM was asked about.
call_evaluate_quiz(user_answers, questions, replies) ==
    LET result == evaluate_quiz("ann", "py", user_answers, questions, strftime(now))
        explained == explanations(user_answers, questions, replies)
    IN /\ ev = NoEval
       /\ ev' = [op |-> "evaluate_quiz", user_answers |-> user_answers,
                 questions |-> questions,
                 replies |-> [i \in 1..Len(questions) |->
                                 IF explained[i].correct THEN LLMError
                                 ELSE replies[i]],
                 score |-> result.score, total |-> result.total,
                 explanations |-> explained]
       /\ UNCHANGED <<users_col, history_col, now, resp, call, ret, handlers, gen>>

\* _generate_strict_explanation(question, correct_answer, given_answer), the
\* LLM giving r
call_generate_strict_explanation(question, r) ==
    /\ ev = NoEval
    /\ ev' = [op |-> "generate_strict_explanation", question |-> question,
              reply |-> r, text |-> generate_strict_explanation(question, r)]
    /\ UNCHANGED <<users_col, history_col, now, resp, call, ret, handlers, gen>>

NextEval ==
    \/ \E qs \in EvalQuestionLists, a \in EvalAnswerLists :
          \E rs \in [1..Len(qs) -> EvalReplies] : call_evaluate_quiz(a, qs, rs)
    \/ \E q \in ExplanationQuestions, r \in ExplanationReplies :
          call_generate_strict_explanation(q, r)

\* the evaluator alone, its LLM calls answered in every way
SpecEval == Init /\ [][NextEval]_vars

----------------------------------------------------------------------------
(* The claims *)

\* an evaluated attempt: a score that is not null and a non-empty list of answers
IsEvaluated(d) ==
    /\ ~IsNone(d.score)
    /\ d.answers.tag = "list"
    /\ d.answers.val # <<>>

\* C1: whatever requests the routes have served, every document of the history
\* collection has a non-null score and a non-empty answers list.
C1_OnlyEvaluatedPersisted ==
    \A i \in 1..Len(history_col) : IsEvaluated(history_col[i])

\* C2: insert_quiz_history of a record whose score is None, or whose answers is
\* empty or absent, returns False and leaves the history collection as it was.
C2_RejectsUnevaluated ==
    [][(/\ call'.op = "insert_quiz_history"
        /\ (IsNone(call'.q.score) \/ ~Truthy(call'.q.answers)))
       => (ret'.val = FALSE /\ history_col' = history_col)]_vars

NoDuplicateKeys(col) ==
    \A i, j \in 1..Len(col) : SameKey(col[i], col[j]) => i = j

WithKey(col, q) == {i \in 1..Len(col) : SameKey(col[i], q)}

\* C3: an insert_quiz_history call on a collection without duplicate keys leaves
\* it without duplicate keys; a record with a score is always written (True is
\* returned), and after a call that returned True exactly one document has the
\* record's (username, timestamp, topic) and its score is the score of that
\* call, so that of two calls with one key the second call's score is stored.
C3_UpsertOverwrites ==
    [][(call'.op = "insert_quiz_history" /\ NoDuplicateKeys(history_col))
       => /\ NoDuplicateKeys(history_col')
          /\ (call'.q.score.tag = "int" => ret'.val = TRUE)
          /\ (ret'.val = TRUE =>
                /\ Cardinality(WithKey(history_col', call'.q)) = 1
                /\ (call'.q.score.tag # "missing" =>
                      \A i \in WithKey(history_col', call'.q) :
                          history_col'[i].score = call'.q.score))]_vars

\* C3 witness: a second call with the key of a stored document and another score
\* has updated that document, which is the only one with the key.
C3_Witness ==
    /\ call.op = "insert_quiz_history"
    /\ ret.val = TRUE
    /\ ret.outcome = "updated"
    /\ call.q = Doc(MainKey, Evaluated(2))
    /\ Cardinality(WithKey(history_col, call.q)) = 1
    /\ \E i \in 1..Len(history_col) : history_col[i] = call.q

\* C4: get_user_history(username) returns only documents of that username whose
\* score is not null and whose answers is a non-empty list.
C4_HistoryOnlyEvaluated ==
    call.op = "get_user_history" =>
        \A i \in 1..Len(ret.val) :
            ret.val[i].username = call.username /\ IsEvaluated(ret.val[i])

SamePair(d, e) == d.timestamp = e.timestamp /\ d.topic = e.topic

\* C5: get_user_history(username) returns documents in non-increasing timestamp
\* order, no two with the same (timestamp, topic); each returned document is the
\* first of its (timestamp, topic) in the sorted query result, and every evaluated
\* (timestamp, topic) of the user in the collection is returned exactly once.
C5_HistorySortedDeduplicated ==
    call.op = "get_user_history" =>
        /\ \A i, j \in 1..Len(ret.val) :
              i < j => TsRank(ret.val[i].timestamp) >= TsRank(ret.val[j].timestamp)
        /\ \A i, j \in 1..Len(ret.val) : SamePair(ret.val[i], ret.val[j]) => i = j
        /\ \A i \in 1..Len(ret.val) :
              \E k \in 1..Len(ret.records) :
                  /\ ret.records[k] = ret.val[i]
                  /\ \A m \in 1..(k - 1) : ~SamePair(ret.records[m], ret.val[i])
        /\ \A n \in 1..Len(history_col) :
              (history_col[n].username = call.username /\ IsEvaluated(history_col[n]))
              => Cardinality({i \in 1..Len(ret.val) :
                                  SamePair(ret.val[i], history_col[n])}) = 1

\* C5 witness: the collection holds two evaluated documents of the user with one
\* (timestamp, topic) and another of a different second; two are returned.
C5_Witness ==
    /\ call.op = "get_user_history"
    /\ call.username = "ann"
    /\ Len(ret.val) = 2
    /\ Len(ret.records) = 3
    /\ \A n \in 1..Len(history_col) : IsEvaluated(history_col[n])
    /\ \E m, n \in 1..Len(history_col) :
          m # n /\ SamePair(history_col[m], history_col[n])

\* C6: a gateway method whose storage call fails gives its caller a benign
\* result (not found, False, an empty list, 0) and raises nothing.
C6_OutageIsAbsorbed ==
    (call.op # "none" /\ ~call.up) =>
        /\ ~ret.raised
        /\ CASE call.op = "find_user" -> ret.val = <<>>
             [] call.op = "insert_user" -> ret.val = FALSE
             [] call.op = "insert_quiz_history" -> ret.val = FALSE
             [] call.op = "get_user_history" -> ret.val = <<>>
             [] OTHER -> ret.val = 0

CountUsers(col, username) ==
    Cardinality({i \in 1..Len(col) : col[i].username = username})

\* C7: two /register handlers that both passed the existence check for one
\* username and both went on to insert have both answered "Registration
\* successful!", and the users collection holds two documents of that username.
C7_BothRegistrationsSucceed ==
    (/\ handlers[1].pc = "done" /\ handlers[1].passed
     /\ handlers[2].pc = "done" /\ handlers[2].passed
     /\ handlers[1].username = handlers[2].username)
    => /\ \A h \in {1, 2} :
            handlers[h].code = 200 /\ handlers[h].msg = "Registration successful!"
       /\ CountUsers(users_col, handlers[1].username) >= 2

\* C7 witness: both interleaved registrations of one username were answered
\* "Registration successful!" and the username has two user documents.
C7_Witness ==
    /\ \A h \in {1, 2} :
          /\ handlers[h].pc = "done"
          /\ handlers[h].username = "ann"
          /\ handlers[h].msg = "Registration successful!"
    /\ CountUsers(users_col, "ann") = 2

\* C8: with one request served at a time, the users collection never holds two
\* documents of one username; /register of a registered username answers 400
\* and leaves the collection as it was; and a request changes the collection, if
\* at all, by appending one document: none is updated or deleted.
C8_OneUserPerUsername ==
    [][/\ \A u \in Usernames : CountUsers(users_col', u) <= 1
       /\ \A u \in Usernames, p \in Passwords :
             (register(u, p) /\ CountUsers(users_col, u) > 0)
             => (resp'.code = 400 /\ users_col' = users_col)
       /\ \/ users_col' = users_col
          \/ \E d \in UserDocs : users_col' = Append(users_col, d)]_vars

\* C8 witness: a registered username was registered again and refused; the
\* other spelling of the name is registered beside it.
C8_Witness ==
    /\ resp.code = 400
    /\ resp.msg = "User already exists!"
    /\ CountUsers(users_col, "ann") = 1
    /\ CountUsers(users_col, "Ann") = 1

\* C9: generate_subtopics(topic) always returns exactly 9 non-empty strings,
\* whatever the two LLM calls give
C9_AlwaysNineSubtopics ==
    gen.op = "generate_subtopics" =>
        /\ Len(gen.subtopics) = NumSubtopics
        /\ \A i \in 1..Len(gen.subtopics) : Len(gen.subtopics[i]) > 0

\* C10: generate_quiz with a non-empty list of subtopics asks the LLM about
\* subtopics[0] only and returns at most num_questions questions, whatever the
\* LLM gives; with an empty list it returns an empty quiz with an error and
\* asks the LLM nothing
C10_FirstSubtopicOnlyAndTruncated ==
    gen.op = "generate_quiz" =>
        /\ gen.subtopics # <<>> =>
              /\ \A i \in 1..Len(gen.asked) : gen.asked[i] = gen.subtopics[1]
              /\ gen.pc = "done" =>
                    /\ Len(gen.asked) >= 1
                    /\ Len(gen.quiz) <= gen.num_questions
                    /\ gen.error = ""
        /\ gen.subtopics = <<>> =>
              /\ gen.pc = "done"
              /\ gen.quiz = <<>>
              /\ gen.error # ""
              /\ gen.asked = <<>>

\* a quiz asked with two different subtopics and one question, the LLM giving
\* two valid questions: the second subtopic is never asked about and one
\* question is returned
C10_Witness ==
    /\ gen.op = "generate_quiz"
    /\ gen.pc = "done"
    /\ Len(gen.subtopics) = 2
    /\ gen.subtopics[1] # gen.subtopics[2]
    /\ gen.num_questions = 1
    /\ Len(gen.asked) >= 1
    /\ Len(gen.quiz) = 1
    /\ gen.quiz # fallback_questions

\* the answer submitted at position i, the empty one when none was submitted
Submitted(i) == IF i <= Len(ev.user_answers) THEN ev.user_answers[i] ELSE <<>>

\* the answer recorded in a question, the empty one when none is recorded
Recorded(q) == IF q.answer.tag = "missing" THEN <<>> ELSE q.answer.val

\* the positions at which the two agree once trimmed, whatever the case
Hits ==
    {i \in 1..Len(ev.questions) :
        lower(strip(Submitted(i))) = lower(strip(Recorded(ev.questions[i])))}

\* C11: evaluate_quiz with questions returns as score the number of positions
\* at which the submitted answer (the empty one when none was submitted) and
\* the recorded answer agree once trimmed, whatever the case; as total the
\* number of questions; and one explanation per question, the i-th about
\* question i; and 0 <= score <= total.
C11_ScoreCountsMatches ==
    (ev.op = "evaluate_quiz" /\ ev.questions # <<>>) =>
        /\ ev.score = Cardinality(Hits)
        /\ ev.total = Len(ev.questions)
        /\ 0 <= ev.score /\ ev.score <= ev.total
        /\ Len(ev.explanations) = Len(ev.questions)
        /\ \A i \in 1..Len(ev.questions) :
              /\ ev.explanations[i].correct <=> i \in Hits
              /\ (i \in Hits /\ ev.questions[i].explanation.tag = "str")
                 => ev.explanations[i].text = ev.questions[i].explanation.val
              /\ i \notin Hits
                 => /\ lower(ev.explanations[i].answer)
                        = lower(strip(Recorded(ev.questions[i])))
                    /\ lower(ev.explanations[i].given) = lower(strip(Submitted(i)))

\* C11 witness: of two questions the first is answered "a" where "A" is
\* recorded and the second "a" where " b " is: the score is 1 of 2.
C11_Witness ==
    /\ ev.op = "evaluate_quiz"
    /\ Len(ev.questions) = 2
    /\ ev.questions[1].answer = StrVal(<<"A">>)
    /\ ev.questions[2].answer = StrVal(<<" ", "b", " ">>)
    /\ ev.user_answers = << <<"a">>, <<"a">> >>
    /\ ev.score = 1
    /\ ev.total = 2
    /\ ev.explanations[1].correct
    /\ ~ev.explanations[2].correct

\* C12: a question at or beyond the end of the submitted answers is counted
\* incorrect whatever it records: it adds nothing to the score, which is then
\* at most the number of questions that have a submitted answer.
C12_UnansweredNeverScored ==
    ev.op = "evaluate_quiz" =>
        /\ \A i \in (Len(ev.user_answers) + 1)..Len(ev.questions) :
              ~ev.explanations[i].correct
        /\ ev.score <= Cardinality({i \in 1..Len(ev.questions) :
                                       i <= Len(ev.user_answers)})

\* a record with a null or missing score, or with empty or missing answers
Lacking(d) ==
    \/ d.score.tag \in {"null", "missing"}
    \/ d.answers.tag = "missing"
    \/ d.answers = ListVal(<<>>)

Count(col, d) == Cardinality({i \in 1..Len(col) : col[i] = d})

\* C13: cleanup_unevaluated_quizzes(username) removes every record of that
\* username with a null or missing score or with empty or missing answers, and
\* nothing else; it returns the number removed; the records of the user that
\* stay are those the filter of get_user_history matches; and afterwards the
\* user has no such record left.
C13_CleanupRemovesUnevaluated ==
    [][call'.op = "cleanup_unevaluated_quizzes" =>
        /\ \A i \in 1..Len(history_col) :
              Count(history_col', history_col[i])
                = IF history_col[i].username = call'.username /\ Lacking(history_col[i])
                  THEN 0 ELSE Count(history_col, history_col[i])
        /\ \A j \in 1..Len(history_col') :
              \E i \in 1..Len(history_col) : history_col[i] = history_col'[j]
        /\ ret'.val = Len(history_col) - Len(history_col')
        /\ \A i \in 1..Len(history_col) :
              history_col[i].username = call'.username
              => (~Lacking(history_col[i])
                  <=> EvaluatedFilter(history_col[i], call'.username))
        /\ \A j \in 1..Len(history_col') :
              history_col'[j].username = call'.username => ~Lacking(history_col'[j])
      ]_vars

\* C13 witness: a cleanup for "ann" removed one record and left one record of
\* "ann", evaluated, and one of "Ann".
C13_Witness ==
    /\ call.op = "cleanup_unevaluated_quizzes"
    /\ call.username = "ann"
    /\ ret.val = 1
    /\ Len(history_col) = 2
    /\ \E i, j \in 1..Len(history_col) :
          /\ history_col[i].username = "ann" /\ IsEvaluated(history_col[i])
          /\ history_col[j].username = "Ann"

\* the documents of a collection with this username and timestamp
Matching(col, username, timestamp) ==
    {i \in 1..Len(col) : col[i].username = username /\ col[i].timestamp = timestamp}

\* the collection is left as it was when nothing matches, and else loses one
\* matching document and nothing more
RemovesOne(username, timestamp) ==
    IF Matching(history_col, username, timestamp) = {}
    THEN history_col' = history_col
    ELSE \E i \in Matching(history_col, username, timestamp) :
            history_col' = Without(history_col, {i})

\* C14: delete_quiz(username, timestamp) removes at most one record, one with
\* that username and timestamp, and returns the number removed; when nothing
\* matches the collection is unchanged, the gateway returns 0 and /delete_quiz
\* answers 404; of two records of the user with one timestamp one stays.
C14_DeleteRemovesOne ==
    [][/\ \A u \in Usernames, ts \in Timestamps :
            (/\ call'.op = "delete_quiz"
             /\ call'.username = u /\ call'.timestamp = ts
             /\ db_delete_quiz(u, ts, TRUE))
            => /\ RemovesOne(u, ts)
               /\ ret'.val = Len(history_col) - Len(history_col')
               /\ ret'.val = IF Matching(history_col, u, ts) = {} THEN 0 ELSE 1
               /\ Cardinality(Matching(history_col, u, ts)) >= 2
                  => Matching(history_col', u, ts) # {}
       /\ \A u \in Usernames, ts \in Timestamps :
            (resp'.code \in {200, 404} /\ call' = call /\ route_delete_quiz(u, ts))
            => /\ RemovesOne(u, ts)
               /\ resp'.code = IF Matching(history_col, u, ts) = {} THEN 404 ELSE 200
      ]_vars

\* C14 witness: the gateway removed one of two records of "ann" of one second
\* on different topics; the other is still stored.
C14_Witness ==
    /\ call.op = "delete_quiz"
    /\ call.username = "ann"
    /\ call.timestamp = Clock[1]
    /\ ret.val = 1
    /\ resp.code = 0
    /\ Len(history_col) = 2
    /\ \E j \in 1..Len(history_col) :
          /\ history_col[j].username = "ann"
          /\ history_col[j].timestamp = Clock[1]
    /\ \E j \in 1..Len(history_col) : history_col[j].timestamp = Clock[2]

\* C15: one invocation of _generate_subtopic_quiz makes at most two LLM calls:
\* the first, and one retry whose result is final.
C15_AtMostTwoCalls ==
    gen.op = "generate_quiz" => Len(gen.asked) <= 2

\* the labels the padding of an options list is made of
Placeholders == {"@ Option", "A Option", "B Option", "C Option"}

\* a returned question is the repair of the parsed item raw: its options are
\* those of raw when there are four, its first four when there are more, and
\* those of raw followed by placeholders when there are fewer; its answer is
\* that of raw when it is a letter of A to D, and A otherwise
RepairOf(q, raw) ==
    /\ q.question = raw.question
    /\ raw.options.tag = "list" =>
          LET n == Len(raw.options.val)
          IN /\ n >= 4 => q.options.val = SubSeq(raw.options.val, 1, 4)
             /\ n < 4 => /\ SubSeq(q.options.val, 1, n) = raw.options.val
                          /\ \A j \in (n + 1)..4 : q.options.val[j] \in Placeholders
    /\ q.answer.val = IF raw.answer.tag = "str" /\ raw.answer.val \in AnswerLetters
                      THEN raw.answer.val ELSE <<"A">>

\* C16: every question _generate_subtopic_quiz returns, parsed or fallback,
\* has a list of exactly 4 options and an answer among A, B, C, D; a question
\* parsed from the reply is the repair of the item it comes from.
C16_FourOptionsAndLetterAnswer ==
    (gen.op = "generate_quiz" /\ gen.pc = "done") =>
        /\ \A k \in 1..Len(gen.quiz) :
              /\ gen.quiz[k].options.tag = "list"
              /\ Len(gen.quiz[k].options.val) = 4
              /\ gen.quiz[k].answer.tag = "str"
              /\ gen.quiz[k].answer.val \in AnswerLetters
        /\ (/\ gen.subtopics # <<>>
            /\ gen.reply.ok /\ gen.reply.kind = "list"
            /\ ~subtopic_quiz_step(gen.topic, gen.subtopics[1], gen.num_questions,
                                   gen.reply).retry)
           => \A k \in 1..Len(gen.quiz) :
                 RepairOf(gen.quiz[k], SelectSeq(gen.reply.items, IsQuestion)[k])

\* C16 witness: a question with two options and the answer "E" was returned
\* with its two options, two placeholders and the answer "A".
C16_Witness ==
    /\ gen.op = "generate_quiz"
    /\ gen.pc = "done"
    /\ gen.reply.kind = "list"
    /\ Len(gen.reply.items) >= 1
    /\ gen.reply.items[1].options = ListVal(<<"A) 1", "B) 2">>)
    /\ gen.reply.items[1].answer = StrVal(<<"E">>)
    /\ Len(gen.quiz) = 1
    /\ gen.quiz[1].options = ListVal(<<"A) 1", "B) 2", "B Option", "C Option">>)
    /\ gen.quiz[1].answer = StrVal(<<"A">>)

\* the letters the options of a question are labelled with ("X) ...")
Labels(question) ==
    {o[1] : o \in {options_of(question)[j] : j \in 1..Len(options_of(question))}}

\* the letters of A to D an explanation refers to as " X) "
Referenced(explanation) ==
    {letter \in option_letters : Contains(explanation, letter_mark(letter))}

\* C17: _generate_strict_explanation returns the explanation the LLM gave
\* (trimmed) when every option letter it refers to labels an option of the
\* question, the first option's letter included; it returns the stored
\* explanation of the question when the explanation refers to a letter that
\* labels none of its options, or when the LLM call fails.
C17_ValidLabelsAccepted ==
    ev.op = "generate_strict_explanation" =>
        ev.text = IF /\ ev.reply.ok
                     /\ Referenced(strip(ev.reply.text)) \subseteq Labels(ev.question)
                  THEN strip(ev.reply.text)
                  ELSE stored_explanation(ev.question, review_explanation)

====
